---- MODULE Spec2Model ----
(***************************************************************************)
(* GSM 03.38 7-bit codec (crate gsm7-alt).                                 *)
(*                                                                         *)
(* Two variants of the codec are in the repository:                        *)
(*   - src/src/lib.rs: the crate source ("minimal" variant, configuration  *)
(*     = strict + replacement_char);                                       *)
(*   - src/target/package/gsm7-alt-0.1.0/src/lib.rs: the packaged          *)
(*     ("extended") variant with max_input_length and validate_input.      *)
(* Definitions of the extended variant carry the suffix _ext.              *)
(*                                                                         *)
(* A char is modelled by its Unicode scalar value, a byte by 0..255, a     *)
(* &str by the sequence of its chars, a &[u8] / Vec<u8> by a sequence of   *)
(* bytes.  Indices are 0-based as in the source (data[i] is data[i+1]).    *)
(***************************************************************************)
EXTENDS Integers, Sequences, FiniteSets, TLC

VARIABLES
    pc,       \* "idle" | "returned" | "decode_loop" | "decoded"
    op,       \* text-side function that was called ("none" before a call)
    text,     \* content: &str
    config,   \* config of the text-side call
    ret,      \* its Result
    dop,      \* byte-side function that was called ("none" before a call)
    data,     \* data: &[u8]
    dconfig,  \* config of the byte-side call
    i,        \* decode_with_config: scan index
    result,   \* decode_with_config: the String built so far
    dret      \* Result of the byte-side call

vars == <<pc, op, text, config, ret, dop, data, dconfig, i, result, dret>>

-----------------------------------------------------------------------------
(* Bounds of the model *)

MaxTextLen == 2   \* longest text over TextChars
MaxDataLen == 3   \* longest byte buffer over DataBytes
MaxLimit   == 2   \* largest max_input_length

-----------------------------------------------------------------------------
(* Result<T>, Gsm7Error, Code *)

Ok(v)  == [ok |-> TRUE, val |-> v]
Err(e) == [ok |-> FALSE, err |-> e]

UnsupportedCharacter(ch)    == [kind |-> "UnsupportedCharacter", character |-> ch, code |-> ch]
InvalidEscapeSequence(code) == [kind |-> "InvalidEscapeSequence", code |-> code]
InvalidByte(byte)           == [kind |-> "InvalidByte", byte |-> byte]
MalformedData(reason)       == [kind |-> "MalformedData", reason |-> reason]

None      == -1
Single(b) == [tag |-> "Single", b |-> b]
Escape(b) == [tag |-> "Escape", b |-> b]
NoCode    == [tag |-> "None", b |-> 0]

ESC == 27          \* 0x1B
SPACE == 32        \* 0x20
REPLACEMENT == 65533   \* U+FFFD

-----------------------------------------------------------------------------
(* Character tables *)

\* build_gsm_table: entry k+1 is the char of code k (None for 0x1B)
build_gsm_table ==
    <<  64, 163,  36, 165, 232, 233, 249, 236, 242, 199,  10, 216, 248,  13, 197, 229,
       916,  95, 934, 915, 923, 937, 928, 936, 931, 920, 926, None, 198, 230, 223, 201,
        32,  33,  34,  35, 164,  37,  38,  39,  40,  41,  42,  43,  44,  45,  46,  47,
        48,  49,  50,  51,  52,  53,  54,  55,  56,  57,  58,  59,  60,  61,  62,  63,
       161,  65,  66,  67,  68,  69,  70,  71,  72,  73,  74,  75,  76,  77,  78,  79,
        80,  81,  82,  83,  84,  85,  86,  87,  88,  89,  90, 196, 214, 209, 220, 167,
       191,  97,  98,  99, 100, 101, 102, 103, 104, 105, 106, 107, 108, 109, 110, 111,
       112, 113, 114, 115, 116, 117, 118, 119, 120, 121, 122, 228, 246, 241, 252, 224 >>

\* build_gsm_ext_table: suffix byte -> char
build_gsm_ext_table ==
    (10 :> 12) @@ (20 :> 94) @@ (40 :> 123) @@ (41 :> 125) @@ (47 :> 92) @@
    (60 :> 91) @@ (61 :> 126) @@ (62 :> 93) @@ (64 :> 124) @@ (101 :> 8364)

\* GSM_MAPS.1: [Option<char>; 128], filled from the base table
gsm_array == [code \in 0..127 |-> build_gsm_table[code + 1]]

\* GSM_MAPS.2: the extension map itself
gsm_ext == build_gsm_ext_table

BaseChars == {gsm_array[code] : code \in 0..127} \ {None}
ExtChars  == {gsm_ext[code] : code \in DOMAIN gsm_ext}

\* mutant of char_to_gsm: extension entries are inserted as Code::Single
char_to_gsm_ext_single ==
    [ch \in BaseChars \cup ExtChars |->
        IF ch \in ExtChars
        THEN Single(CHOOSE code \in DOMAIN gsm_ext : gsm_ext[code] = ch)
        ELSE Single(CHOOSE code \in 0..127 : gsm_array[code] = ch)]

\* GSM_MAPS.0: char -> Code.  Base entries are inserted first, extension
\* entries afterwards with HashMap::insert, which replaces an existing entry.
char_to_gsm ==
    [ch \in BaseChars \cup ExtChars |->
        IF ch \in ExtChars
        THEN Escape(CHOOSE code \in DOMAIN gsm_ext : gsm_ext[code] = ch)
        ELSE Single(CHOOSE code \in 0..127 : gsm_array[code] = ch)]

\* char_to_gsm.get(&ch)
char_to_gsm_get(ch) == IF ch \in DOMAIN char_to_gsm THEN char_to_gsm[ch] ELSE NoCode

\* gsm_ext.get(&next_code): None when the suffix is not a key
gsm_ext_get(code) == IF code \in DOMAIN gsm_ext THEN gsm_ext[code] ELSE None

-----------------------------------------------------------------------------
(* Configuration *)

Default   == [strict |-> FALSE, replacement_char |-> REPLACEMENT]
strict    == [strict |-> TRUE,  replacement_char |-> REPLACEMENT]


\* Gsm7Config of src/src/lib.rs
Gsm7Config == [strict : BOOLEAN, replacement_char : {REPLACEMENT, 63, 8364}]

\* Gsm7Config of the extended variant: two more fields
Gsm7Config_ext ==
    [strict : BOOLEAN, replacement_char : {REPLACEMENT, 63, 8364},
     max_input_length : 0..MaxLimit, validate_input : BOOLEAN]

-----------------------------------------------------------------------------
(* Encoder, src/src/lib.rs *)

\* mutant of encode_char: the escape marker is not pushed
encode_char_no_marker(ch, cfg) ==
    LET code == char_to_gsm_get(ch) IN
    CASE code.tag = "Single" -> Ok(<<code.b>>)
      [] code.tag = "Escape" -> Ok(<<code.b>>)
      [] OTHER ->
            IF cfg.strict
            THEN Err(UnsupportedCharacter(ch))
            ELSE LET r == char_to_gsm_get(cfg.replacement_char) IN
                 IF r.tag = "Single" THEN Ok(<<r.b>>) ELSE Ok(<<SPACE>>)

\* mutant of encode_char: the error carries the replacement character
encode_char_wrong_payload(ch, cfg) ==
    LET code == char_to_gsm_get(ch) IN
    CASE code.tag = "Single" -> Ok(<<code.b>>)
      [] code.tag = "Escape" -> Ok(<<ESC, code.b>>)
      [] OTHER ->
            IF cfg.strict
            THEN Err(UnsupportedCharacter(cfg.replacement_char))
            ELSE LET r == char_to_gsm_get(cfg.replacement_char) IN
                 IF r.tag = "Single" THEN Ok(<<r.b>>) ELSE Ok(<<SPACE>>)

\* mutant of encode_char: the suffix is pushed before the escape marker
encode_char_marker_last(ch, cfg) ==
    LET code == char_to_gsm_get(ch) IN
    CASE code.tag = "Single" -> Ok(<<code.b>>)
      [] code.tag = "Escape" -> Ok(<<code.b, ESC>>)
      [] OTHER ->
            IF cfg.strict
            THEN Err(UnsupportedCharacter(ch))
            ELSE LET r == char_to_gsm_get(cfg.replacement_char) IN
                 IF r.tag = "Single" THEN Ok(<<r.b>>) ELSE Ok(<<SPACE>>)

\* body of the loop "for ch in content.chars()": the bytes pushed for ch, or
\* the error returned
encode_char(ch, cfg) ==
    LET code == char_to_gsm_get(ch) IN
    CASE code.tag = "Single" -> Ok(<<code.b>>)
      [] code.tag = "Escape" -> Ok(<<ESC, code.b>>)
      [] OTHER ->
            IF cfg.strict
            THEN Err(UnsupportedCharacter(ch))
            ELSE LET r == char_to_gsm_get(cfg.replacement_char) IN
                 IF r.tag = "Single" THEN Ok(<<r.b>>) ELSE Ok(<<SPACE>>)

RECURSIVE encode_loop(_, _, _, _)
encode_loop(content, cfg, k, bytes) ==
    IF k > Len(content)
    THEN Ok(bytes)
    ELSE LET r == encode_char(content[k], cfg) IN
         IF r.ok THEN encode_loop(content, cfg, k + 1, bytes \o r.val) ELSE r

encode_with_config(content, cfg) == encode_loop(content, cfg, 1, <<>>)

encode(content) == encode_with_config(content, Default)

-----------------------------------------------------------------------------
(* Decoder, src/src/lib.rs *)

\* mutant of decode_escape: the unmapped pair fails whatever config.strict is
decode_escape_pair_always_fails(d, idx, cfg) ==
    IF idx + 1 < Len(d)
    THEN LET next_code == d[idx + 2]
             ch == gsm_ext_get(next_code) IN
         IF ch # None
         THEN Ok([ch |-> ch, adv |-> 2])
         ELSE Err(InvalidEscapeSequence(next_code))
    ELSE IF cfg.strict
         THEN Err(MalformedData(<<"Escape byte at end of input">>))
         ELSE Ok([ch |-> cfg.replacement_char, adv |-> 1])

\* mutant of decode_escape: the trailing escape is replaced whatever
\* config.strict is
decode_escape_trailing_replaced(d, idx, cfg) ==
    IF idx + 1 < Len(d)
    THEN LET next_code == d[idx + 2]
             ch == gsm_ext_get(next_code) IN
         IF ch # None
         THEN Ok([ch |-> ch, adv |-> 2])
         ELSE IF cfg.strict
              THEN Err(InvalidEscapeSequence(next_code))
              ELSE Ok([ch |-> cfg.replacement_char, adv |-> 2])
    ELSE Ok([ch |-> cfg.replacement_char, adv |-> 1])

\* mutant of decode_escape: the substituted pair advances one byte only
decode_escape_pair_advances_one(d, idx, cfg) ==
    IF idx + 1 < Len(d)
    THEN LET next_code == d[idx + 2]
             ch == gsm_ext_get(next_code) IN
         IF ch # None
         THEN Ok([ch |-> ch, adv |-> 2])
         ELSE IF cfg.strict
              THEN Err(InvalidEscapeSequence(next_code))
              ELSE Ok([ch |-> cfg.replacement_char, adv |-> 1])
    ELSE IF cfg.strict
         THEN Err(MalformedData(<<"Escape byte at end of input">>))
         ELSE Ok([ch |-> cfg.replacement_char, adv |-> 1])

\* mutant of decode_escape: the trailing escape advances two bytes
decode_escape_trailing_advances_two(d, idx, cfg) ==
    IF idx + 1 < Len(d)
    THEN LET next_code == d[idx + 2]
             ch == gsm_ext_get(next_code) IN
         IF ch # None
         THEN Ok([ch |-> ch, adv |-> 2])
         ELSE IF cfg.strict
              THEN Err(InvalidEscapeSequence(next_code))
              ELSE Ok([ch |-> cfg.replacement_char, adv |-> 2])
    ELSE IF cfg.strict
         THEN Err(MalformedData(<<"Escape byte at end of input">>))
         ELSE Ok([ch |-> cfg.replacement_char, adv |-> 2])

\* branch "if code == 0x1B" of the loop body: the char pushed and the advance
\* of i, or the error returned
decode_escape(d, idx, cfg) ==
    IF idx + 1 < Len(d)
    THEN LET next_code == d[idx + 2]
             ch == gsm_ext_get(next_code) IN
         IF ch # None
         THEN Ok([ch |-> ch, adv |-> 2])
         ELSE IF cfg.strict
              THEN Err(InvalidEscapeSequence(next_code))
              ELSE Ok([ch |-> cfg.replacement_char, adv |-> 2])
    ELSE IF cfg.strict
         THEN Err(MalformedData(<<"Escape byte at end of input">>))
         ELSE Ok([ch |-> cfg.replacement_char, adv |-> 1])

\* mutant of decode_regular: no branch for code >= 128, which then fails in
\* strict mode like an unused slot
decode_regular_high_byte_fails(code, cfg) ==
    IF code < 128 /\ gsm_array[code] # None
    THEN Ok([ch |-> gsm_array[code], adv |-> 1])
    ELSE IF cfg.strict
         THEN Err(InvalidByte(code))
         ELSE Ok([ch |-> cfg.replacement_char, adv |-> 1])

\* branches "else if code < 128" and "else" of the loop body
decode_regular(code, cfg) ==
    IF code < 128
    THEN IF gsm_array[code] # None
         THEN Ok([ch |-> gsm_array[code], adv |-> 1])
         ELSE IF cfg.strict
              THEN Err(InvalidByte(code))
              ELSE Ok([ch |-> cfg.replacement_char, adv |-> 1])
    ELSE Ok([ch |-> cfg.replacement_char, adv |-> 1])

\* one iteration of "while i < data.len()"
decode_step(d, idx, cfg) ==
    LET code == d[idx + 1] IN
    IF code = ESC THEN decode_escape(d, idx, cfg) ELSE decode_regular(code, cfg)

RECURSIVE decode_loop(_, _, _, _)
decode_loop(d, cfg, idx, res) ==
    IF idx < Len(d)
    THEN LET s == decode_step(d, idx, cfg) IN
         IF s.ok THEN decode_loop(d, cfg, idx + s.val.adv, Append(res, s.val.ch)) ELSE s
    ELSE Ok(res)

decode_with_config(d, cfg) == decode_loop(d, cfg, 0, <<>>)

decode(d) == decode_with_config(d, Default)

-----------------------------------------------------------------------------
(* Measurement utilities, src/src/lib.rs *)

\* mutant of encoded_len_loop: an escape sequence counts one byte
RECURSIVE encoded_len_loop_escape_one(_, _, _)
encoded_len_loop_escape_one(content, k, len) ==
    IF k > Len(content)
    THEN Ok(len)
    ELSE LET code == char_to_gsm_get(content[k]) IN
         CASE code.tag = "Single" -> encoded_len_loop_escape_one(content, k + 1, len + 1)
           [] code.tag = "Escape" -> encoded_len_loop_escape_one(content, k + 1, len + 1)
           [] OTHER -> Err(UnsupportedCharacter(content[k]))

RECURSIVE encoded_len_loop(_, _, _)
encoded_len_loop(content, k, len) ==
    IF k > Len(content)
    THEN Ok(len)
    ELSE LET code == char_to_gsm_get(content[k]) IN
         CASE code.tag = "Single" -> encoded_len_loop(content, k + 1, len + 1)
           [] code.tag = "Escape" -> encoded_len_loop(content, k + 1, len + 2)
           [] OTHER -> Err(UnsupportedCharacter(content[k]))

encoded_len(content) == encoded_len_loop(content, 1, 0)

\* mutant of is_gsm7_compatible: the empty string is not compatible
is_gsm7_compatible_nonempty(content) == content # <<>> /\ encoded_len(content).ok

is_gsm7_compatible(content) == encoded_len(content).ok


-----------------------------------------------------------------------------
(* Extended variant, src/target/package/gsm7-alt-0.1.0/src/lib.rs *)

\* char::len_utf8
len_utf8(ch) == IF ch < 128 THEN 1 ELSE IF ch < 2048 THEN 2 ELSE IF ch < 65536 THEN 3 ELSE 4

\* str::len: the length of a &str in bytes of its UTF-8 encoding
RECURSIVE str_len(_)
str_len(content) ==
    IF content = <<>> THEN 0 ELSE len_utf8(Head(content)) + str_len(Tail(content))

\* accessors of the maps object of the extended variant
get_code(ch)     == char_to_gsm_get(ch)
get_ext_char(b)  == gsm_ext_get(b)
get_char(b)      == IF b < 128 THEN gsm_array[b] ELSE None

\* Gsm7Error::malformed_data / Gsm7Error::unsupported_character
malformed_data(reason)    == MalformedData(reason)
unsupported_character(ch) == UnsupportedCharacter(ch)

\* the length check at the head of encode_with_config: TRUE when the input
\* is rejected
encode_length_exceeded(content, cfg) ==
    cfg.max_input_length > 0 /\ str_len(content) > cfg.max_input_length

encode_char_ext(ch, cfg) ==
    LET code == get_code(ch) IN
    CASE code.tag = "Single" -> Ok(<<code.b>>)
      [] code.tag = "Escape" -> Ok(<<ESC, code.b>>)
      [] OTHER ->
            IF cfg.strict
            THEN Err(unsupported_character(ch))
            ELSE LET r == get_code(cfg.replacement_char) IN
                 CASE r.tag = "Single" -> Ok(<<r.b>>)
                   [] r.tag = "Escape" -> Ok(<<ESC, r.b>>)
                   [] OTHER -> Ok(<<SPACE>>)

RECURSIVE encode_loop_ext(_, _, _, _)
encode_loop_ext(content, cfg, k, bytes) ==
    IF k > Len(content)
    THEN Ok(bytes)
    ELSE LET r == encode_char_ext(content[k], cfg) IN
         IF r.ok THEN encode_loop_ext(content, cfg, k + 1, bytes \o r.val) ELSE r

encode_with_config_ext(content, cfg) ==
    IF content = <<>>
    THEN Ok(<<>>)
    ELSE IF encode_length_exceeded(content, cfg)
         THEN Err(malformed_data(<<"Input length exceeds maximum",
                                   str_len(content), cfg.max_input_length>>))
         ELSE encode_loop_ext(content, cfg, 1, <<>>)

\* validate_encoded_data: Ok(<<>>) stands for Ok(())
RECURSIVE validate_encoded_data_from(_, _, _)
validate_encoded_data_from(d, is_strict, idx) ==
    IF idx < Len(d)
    THEN LET code == d[idx + 1] IN
         IF code = ESC
         THEN IF idx + 1 < Len(d)
              THEN IF is_strict /\ get_ext_char(d[idx + 2]) = None
                   THEN Err(InvalidEscapeSequence(d[idx + 2]))
                   ELSE validate_encoded_data_from(d, is_strict, idx + 2)
              ELSE Err(malformed_data(<<"Escape byte at end of input">>))
         ELSE IF code >= 128
              THEN IF is_strict
                   THEN Err(InvalidByte(code))
                   ELSE validate_encoded_data_from(d, is_strict, idx + 1)
              ELSE IF is_strict /\ get_char(code) = None
                   THEN Err(InvalidByte(code))
                   ELSE validate_encoded_data_from(d, is_strict, idx + 1)
    ELSE Ok(<<>>)

validate_encoded_data(d, is_strict) == validate_encoded_data_from(d, is_strict, 0)

\* one iteration of the main loop of the extended decode_with_config
decode_step_ext(d, idx, cfg) ==
    LET code == d[idx + 1] IN
    IF code = ESC
    THEN IF idx + 1 < Len(d)
         THEN LET next_code == d[idx + 2]
                  ch == get_ext_char(next_code) IN
              IF ch # None
              THEN Ok([ch |-> ch, adv |-> 2])
              ELSE IF cfg.strict
                   THEN Err(InvalidEscapeSequence(next_code))
                   ELSE Ok([ch |-> cfg.replacement_char, adv |-> 2])
         ELSE IF cfg.strict
              THEN Err(malformed_data(<<"Escape byte at end of input">>))
              ELSE Ok([ch |-> cfg.replacement_char, adv |-> 1])
    ELSE IF get_char(code) # None
         THEN Ok([ch |-> get_char(code), adv |-> 1])
         ELSE IF cfg.strict
              THEN Err(InvalidByte(code))
              ELSE Ok([ch |-> cfg.replacement_char, adv |-> 1])

RECURSIVE decode_loop_ext(_, _, _, _)
decode_loop_ext(d, cfg, idx, res) ==
    IF idx < Len(d)
    THEN LET s == decode_step_ext(d, idx, cfg) IN
         IF s.ok THEN decode_loop_ext(d, cfg, idx + s.val.adv, Append(res, s.val.ch)) ELSE s
    ELSE Ok(res)

decode_with_config_ext(d, cfg) ==
    IF d = <<>>
    THEN Ok(<<>>)
    ELSE IF cfg.max_input_length > 0 /\ Len(d) > cfg.max_input_length
         THEN Err(malformed_data(<<"Input length exceeds maximum",
                                   Len(d), cfg.max_input_length>>))
         ELSE LET v == IF cfg.validate_input
                       THEN validate_encoded_data(d, cfg.strict)
                       ELSE Ok(<<>>) IN
              IF v.ok THEN decode_loop_ext(d, cfg, 0, <<>>) ELSE v

-----------------------------------------------------------------------------
(* Inputs *)

SeqsUpTo(S, n) == UNION {[1..m -> S] : m \in 0..n}

\* 'H' 'e' '?' e-acute '{' euro U+FFFD crab ESC
TextChars == {72, 101, 63, 233, 123, 8364, 65533, 129408, 27}

\* every short text over TextChars, and every table character on its own
Texts == SeqsUpTo(TextChars, MaxTextLen) \cup {<<c>> : c \in BaseChars \cup ExtChars}

\* ESC, 'e' (also the euro suffix), 'H', LF (also the form-feed suffix), 0xFF
DataBytes == {27, 101, 72, 10, 255}

\* every short buffer over DataBytes, every single byte, every escape pair
Datas == SeqsUpTo(DataBytes, MaxDataLen) \cup {<<b>> : b \in 0..255}
            \cup {<<ESC, b>> : b \in 0..255}

-----------------------------------------------------------------------------
(* State machine: one call per behaviour, or encode followed by decode *)

Init ==
    /\ pc = "idle"
    /\ op = "none"
    /\ text = <<>>
    /\ config = Default
    /\ ret = Ok(<<>>)
    /\ dop = "none"
    /\ data = <<>>
    /\ dconfig = Default
    /\ i = 0
    /\ result = <<>>
    /\ dret = Ok(<<>>)

TextSide == <<op, text, config, ret>>
ByteSide == <<dop, data, dconfig, i, result, dret>>

\* encode_with_config(content, &config)
Encode ==
    /\ pc = "idle"
    /\ \E t \in Texts, c \in Gsm7Config :
          /\ text' = t
          /\ config' = c
          /\ ret' = encode_with_config(t, c)
    /\ op' = "encode_with_config"
    /\ pc' = "returned"
    /\ UNCHANGED ByteSide

\* encode_with_config of the extended variant
EncodeExt ==
    /\ pc = "idle"
    /\ \E t \in Texts, c \in Gsm7Config_ext :
          /\ text' = t
          /\ config' = c
          /\ ret' = encode_with_config_ext(t, c)
    /\ op' = "encode_with_config_ext"
    /\ pc' = "returned"
    /\ UNCHANGED ByteSide

\* encoded_len(content)
EncodedLen ==
    /\ pc = "idle"
    /\ \E t \in Texts :
          /\ text' = t
          /\ ret' = encoded_len(t)
    /\ op' = "encoded_len"
    /\ pc' = "returned"
    /\ UNCHANGED <<config, ByteSide>>

\* is_gsm7_compatible(content)
IsGsm7Compatible ==
    /\ pc = "idle"
    /\ \E t \in Texts :
          /\ text' = t
          /\ ret' = is_gsm7_compatible(t)
    /\ op' = "is_gsm7_compatible"
    /\ pc' = "returned"
    /\ UNCHANGED <<config, ByteSide>>

\* decode_with_config(data, &config): entry, up to the loop head
DecodeStart ==
    /\ pc = "idle"
    /\ \E d \in Datas, c \in Gsm7Config :
          /\ data' = d
          /\ dconfig' = c
    /\ dop' = "decode_with_config"
    /\ i' = 0
    /\ result' = <<>>
    /\ pc' = "decode_loop"
    /\ UNCHANGED <<dret, TextSide>>

\* let encoded = encode_with_config(..)?; decode(&encoded): entry of decode
DecodeEncoded ==
    /\ pc = "returned"
    /\ op = "encode_with_config"
    /\ ret.ok
    /\ data' = ret.val
    /\ dconfig' = Default
    /\ dop' = "decode"
    /\ i' = 0
    /\ result' = <<>>
    /\ pc' = "decode_loop"
    /\ UNCHANGED <<dret, TextSide>>

\* one iteration of the while loop of decode_with_config
DecodeIter ==
    /\ pc = "decode_loop"
    /\ i < Len(data)
    /\ LET s == decode_step(data, i, dconfig) IN
       IF s.ok
       THEN /\ result' = Append(result, s.val.ch)
            /\ i' = i + s.val.adv
            /\ UNCHANGED <<pc, dret>>
       ELSE /\ dret' = s
            /\ pc' = "decoded"
            /\ UNCHANGED <<i, result>>
    /\ UNCHANGED <<dop, data, dconfig, TextSide>>

\* loop exit: Ok(result)
DecodeReturn ==
    /\ pc = "decode_loop"
    /\ ~(i < Len(data))
    /\ dret' = Ok(result)
    /\ pc' = "decoded"
    /\ UNCHANGED <<dop, data, dconfig, i, result, TextSide>>

\* decode_with_config of the extended variant
DecodeExt ==
    /\ pc = "idle"
    /\ \E d \in Datas, c \in Gsm7Config_ext :
          /\ data' = d
          /\ dconfig' = c
          /\ dret' = decode_with_config_ext(d, c)
    /\ dop' = "decode_with_config_ext"
    /\ pc' = "decoded"
    /\ UNCHANGED <<i, result, TextSide>>

Next ==
    \/ Encode
    \/ EncodeExt
    \/ EncodedLen
    \/ IsGsm7Compatible
    \/ DecodeStart
    \/ DecodeEncoded
    \/ DecodeIter
    \/ DecodeReturn
    \/ DecodeExt

Spec == Init /\ [][Next]_vars

\* the loop of decode_with_config is synchronous code: an iteration that can
\* run does run, and so does the return
FairSpec == Spec /\ WF_vars(DecodeIter) /\ WF_vars(DecodeReturn)


-----------------------------------------------------------------------------
(* Vocabulary of the properties, stated on the two declarative tables *)

TableChars == BaseChars \cup ExtChars

\* every char of t is in the base or the extension table
InTables(t) == \A k \in 1..Len(t) : t[k] \in TableChars

\* the first char of t that is in neither table (t has one)
FirstUnmapped(t) ==
    t[CHOOSE k \in 1..Len(t) :
        t[k] \notin TableChars /\ \A j \in 1..(k - 1) : t[j] \in TableChars]

\* a decode call of src/src/lib.rs has returned
DecodeDone == pc = "decoded" /\ dop \in {"decode_with_config", "decode"}

\* p, scanned left to right, ends on an escape prefix that has no suffix yet
RECURSIVE EndsOnPrefix(_, _)
EndsOnPrefix(p, idx) ==
    IF idx >= Len(p) THEN FALSE
    ELSE IF p[idx + 1] = ESC
         THEN IF idx + 1 = Len(p) THEN TRUE ELSE EndsOnPrefix(p, idx + 2)
         ELSE EndsOnPrefix(p, idx + 1)

-----------------------------------------------------------------------------
(* Properties *)

\* C1: round trip.  With the default configuration, a text made of table
\* characters encodes without error and decode(encode(text)) is the text;
\* and every base byte other than 0x1B, and every pair 0x1B + extension
\* suffix, decodes to a character whose encoding is that byte / that pair.
C1_RoundTrip ==
    /\ (pc \in {"returned", "decode_loop", "decoded"} /\ op = "encode_with_config"
          /\ config = Default /\ InTables(text))
       => ret.ok
    /\ (pc = "decoded" /\ dop = "decode" /\ config = Default /\ InTables(text))
       => dret = Ok(text)
    /\ (pc = "decoded" /\ dop = "decode_with_config" /\ dconfig = Default
          /\ \/ Len(data) = 1 /\ data[1] < 128 /\ data[1] # ESC
             \/ Len(data) = 2 /\ data[1] = ESC /\ data[2] \in DOMAIN build_gsm_ext_table)
       => /\ dret.ok
          /\ Len(dret.val) = 1
          /\ encode(dret.val) = Ok(data)

C1_Witness ==
    /\ pc = "decoded" /\ dop = "decode" /\ config = Default
    /\ text = <<72, 8364>>
    /\ data = <<72, ESC, 101>>
    /\ dret = Ok(text)

\* C2: totality in non-strict mode.  decode_with_config of src/src/lib.rs
\* with strict = false returns Ok for every byte sequence.
C2_NonStrictTotal ==
    (DecodeDone /\ ~dconfig.strict) => dret.ok

C2_Witness ==
    /\ DecodeDone /\ ~dconfig.strict
    /\ data = <<ESC, 255, ESC>>
    /\ dret = Ok(<<dconfig.replacement_char, dconfig.replacement_char>>)

\* C3 as stated: a byte >= 0x80 at any position of the input is never the
\* byte an error carries, and the output has a replacement_char for it.
C3_Original ==
    DecodeDone =>
        IF dret.ok
        THEN Cardinality({k \in 1..Len(dret.val) : dret.val[k] = dconfig.replacement_char})
                >= Cardinality({k \in 1..Len(data) : data[k] >= 128})
        ELSE /\ dret.err.kind = "InvalidByte" => dret.err.byte < 128
             /\ dret.err.kind = "InvalidEscapeSequence" => dret.err.code < 128

\* C3 amended: a byte >= 0x80 read at the scan index (that is, not the
\* suffix of a 0x1B prefix) never ends the scan with an error: in both modes
\* the iteration pushes replacement_char and advances by one.  An error that
\* carries a byte >= 0x80 is an InvalidEscapeSequence of strict mode.
C3_HighByteReplaced ==
    /\ [][(pc = "decode_loop" /\ i < Len(data) /\ data[i + 1] >= 128)
            => /\ pc' = "decode_loop"
               /\ i' = i + 1
               /\ result' = Append(result, dconfig.replacement_char)]_vars
    /\ [](DecodeDone /\ ~dret.ok =>
            /\ dret.err.kind # "InvalidByte" \/ dret.err.byte < 128
            /\ (dret.err.kind = "InvalidEscapeSequence" /\ dret.err.code >= 128)
                  => dconfig.strict)

C3_Witness ==
    /\ DecodeDone /\ dconfig.strict
    /\ data = <<72, 255>>
    /\ dret = Ok(<<72, dconfig.replacement_char>>)

\* C4: escape at end.  For data = p ++ [0x1B] where the scan of p does not
\* end on an escape prefix: strict mode fails with MalformedData when p alone
\* decodes without error; non-strict mode returns the decoding of p followed
\* by one replacement_char.
C4_EscapeAtEnd ==
    (DecodeDone /\ Len(data) > 0 /\ data[Len(data)] = ESC
        /\ ~EndsOnPrefix(SubSeq(data, 1, Len(data) - 1), 0))
    => LET p == SubSeq(data, 1, Len(data) - 1)
           dp == decode_with_config(p, dconfig) IN
       IF dconfig.strict
       THEN dp.ok => (~dret.ok /\ dret.err.kind = "MalformedData")
       ELSE dp.ok /\ dret = Ok(dp.val \o <<dconfig.replacement_char>>)

C4_Witness ==
    /\ DecodeDone /\ dconfig.strict
    /\ data = <<ESC, 101, ESC>>
    /\ ~dret.ok /\ dret.err.kind = "MalformedData"

\* C5: strict encode fails fast.  With strict = true, a text with a char in
\* neither table gives UnsupportedCharacter carrying the first such char and
\* its code point, and no bytes; a text of table chars gives Ok.
C5_StrictFailFast ==
    (pc = "returned" /\ op = "encode_with_config" /\ config.strict)
    => IF InTables(text)
       THEN ret.ok
       ELSE /\ ~ret.ok
            /\ DOMAIN ret = {"ok", "err"}
            /\ ret.err.kind = "UnsupportedCharacter"
            /\ ret.err.character = FirstUnmapped(text)
            /\ ret.err.code = FirstUnmapped(text)

C5_Witness ==
    /\ pc = "returned" /\ op = "encode_with_config" /\ config.strict
    /\ text = <<129408, 65533>>
    /\ ret = Err(UnsupportedCharacter(129408))


\* the bytes the tables give for ch: its base code, or 0x1B and its
\* extension suffix; empty when ch has no Code
TableBytes(ch) ==
    IF ch \in BaseChars
    THEN <<CHOOSE b \in 0..127 : build_gsm_table[b + 1] = ch>>
    ELSE IF ch \in ExtChars
         THEN <<ESC, CHOOSE b \in DOMAIN build_gsm_ext_table : build_gsm_ext_table[b] = ch>>
         ELSE <<>>

\* t with every char that is in neither table replaced by r
Substituted(t, r) == [k \in 1..Len(t) |-> IF t[k] \in TableChars THEN t[k] ELSE r]

\* the output the non-strict encoder should give: per char its table bytes,
\* for a char without Code the table bytes of r, 0x20 when r has no Code
RECURSIVE FallbackBytes(_, _)
FallbackBytes(t, r) ==
    IF t = <<>> THEN <<>>
    ELSE (IF Head(t) \in TableChars THEN TableBytes(Head(t))
          ELSE IF r \in TableChars THEN TableBytes(r) ELSE <<SPACE>>)
         \o FallbackBytes(Tail(t), r)

\* C6: non-strict substitution is visible after decoding.  For a non-strict
\* configuration, decode(encode_with_config(text, config)) is the text with
\* each char that has no Code replaced by config.replacement_char.
C6_SubstitutionVisible ==
    (pc = "decoded" /\ dop = "decode" /\ ~config.strict)
    => dret = Ok(Substituted(text, config.replacement_char))

\* C7: non-strict encode fallback.  For a char without Code the non-strict
\* encoder appends the bytes of the lookup of replacement_char (one byte for
\* Single, 0x1B and the suffix for Escape), and 0x20 only when
\* replacement_char has no Code.
C7_FallbackBytes ==
    (pc = "returned" /\ op \in {"encode_with_config", "encode_with_config_ext"}
        /\ ~config.strict /\ ret.ok)
    => ret.val = FallbackBytes(text, config.replacement_char)

\* C8: length consistency.  For a text of table chars encoded_len is Ok(n),
\* n the number of bytes of encode(text): 1 per base char, 2 per extension
\* char; otherwise encoded_len fails with the error of strict encode.
C8_LengthConsistency ==
    (pc = "returned" /\ op = "encoded_len")
    => IF InTables(text)
       THEN /\ encode(text).ok
            /\ ret = Ok(Len(encode(text).val))
            /\ ret.val = Cardinality({k \in 1..Len(text) : text[k] \in BaseChars})
                         + 2 * Cardinality({k \in 1..Len(text) : text[k] \in ExtChars})
       ELSE /\ ~ret.ok
            /\ ret.err.kind = "UnsupportedCharacter"
            /\ ret = encode_with_config(text, strict)

C8_Witness ==
    /\ pc = "returned" /\ op = "encoded_len"
    /\ text = <<101, 8364>>
    /\ ret = Ok(3)

\* C9: is_gsm7_compatible(s) is true exactly when encoded_len(s) succeeds,
\* exactly when every char of s is in a table, exactly when strict encode
\* succeeds; the empty string is compatible.
C9_Compatible ==
    (pc = "returned" /\ op = "is_gsm7_compatible")
    => /\ ret = encoded_len(text).ok
       /\ ret = InTables(text)
       /\ ret = encode_with_config(text, strict).ok
       /\ text = <<>> => ret = TRUE

C9_Witness ==
    /\ pc = "returned" /\ op = "is_gsm7_compatible"
    /\ text = <<>>
    /\ ret = TRUE

\* C10: the encode length limit is counted in characters.  The extended
\* encode_with_config fails with MalformedData exactly when
\* max_input_length > 0 and the text has more than max_input_length chars.
C10_LimitInChars ==
    (pc = "returned" /\ op = "encode_with_config_ext")
    => ((~ret.ok /\ ret.err.kind = "MalformedData")
          <=> (config.max_input_length > 0 /\ Len(text) > config.max_input_length))


\* d is a sequence of base-table codes that have a char and of pairs
\* 0x1B + key of the extension table
RECURSIVE WireValid(_)
WireValid(d) ==
    IF d = <<>> THEN TRUE
    ELSE IF Head(d) = ESC
         THEN /\ Len(d) >= 2
              /\ d[2] \in DOMAIN build_gsm_ext_table
              /\ WireValid(SubSeq(d, 3, Len(d)))
         ELSE /\ Head(d) < 128
              /\ build_gsm_table[Head(d) + 1] # None
              /\ WireValid(Tail(d))

\* C11: the validation pre-pass agrees with the main decode loop in strict
\* mode: validate_encoded_data(data, true) fails exactly when the strict
\* main loop fails and with the same error, so it does not reject a byte
\* >= 0x80 that the main loop replaces with replacement_char.
C11_ValidationAgrees ==
    (DecodeDone /\ dconfig.strict)
    => LET v == validate_encoded_data(data, TRUE) IN
       /\ v.ok <=> dret.ok
       /\ ~v.ok => v = dret

\* C12: wire-level validity of encoder output.  Whenever encode_with_config
\* returns Ok (strict or not, any replacement_char) every output byte is
\* < 0x80, every 0x1B is followed by a key of the extension table and every
\* other byte is a base code with a char; strict decode accepts the output.
C12_WireValid ==
    (pc = "returned" /\ op \in {"encode_with_config", "encode_with_config_ext"} /\ ret.ok)
    => /\ \A k \in 1..Len(ret.val) : ret.val[k] < 128
       /\ WireValid(ret.val)
       /\ decode_with_config(ret.val, strict).ok

C12_Witness ==
    /\ pc = "returned" /\ op = "encode_with_config"
    /\ config = [strict |-> FALSE, replacement_char |-> 8364]
    /\ text = <<129408, 8364>>
    /\ ret = Ok(<<SPACE, ESC, 101>>)

\* C13: unmapped escape pair.  When the decoder reads 0x1B followed by a
\* byte that is not a key of the extension table, strict mode fails with
\* InvalidEscapeSequence carrying that byte; non-strict mode pushes one
\* replacement_char and consumes both bytes, so the rest of the input is
\* decoded from the byte after the suffix.
C13_UnmappedPair ==
    /\ [][(pc = "decode_loop" /\ i + 1 < Len(data) /\ data[i + 1] = ESC
             /\ data[i + 2] \notin DOMAIN build_gsm_ext_table)
          => IF dconfig.strict
             THEN /\ pc' = "decoded"
                  /\ dret' = Err(InvalidEscapeSequence(data[i + 2]))
             ELSE /\ pc' = "decode_loop"
                  /\ i' = i + 2
                  /\ result' = Append(result, dconfig.replacement_char)]_vars
    /\ []((DecodeDone /\ ~dconfig.strict /\ Len(data) >= 2 /\ data[1] = ESC
             /\ data[2] \notin DOMAIN build_gsm_ext_table)
          => dret = Ok(<<dconfig.replacement_char>>
                        \o decode_with_config(SubSeq(data, 3, Len(data)), dconfig).val))

C13_Witness ==
    /\ DecodeDone /\ ~dconfig.strict
    /\ data = <<ESC, ESC, 101>>
    /\ dret = Ok(<<dconfig.replacement_char, 101>>)

\* C14: decoder scan invariant and termination.  An iteration that does not
\* return an error pushes exactly one char and advances i by 2 for an escape
\* pair and by 1 otherwise; i never passes the input length; the output has
\* at most as many chars as bytes were scanned; every scan returns.
C14_Scan ==
    /\ [][(pc = "decode_loop" /\ pc' = "decode_loop")
          => /\ i < Len(data)
             /\ \E ch \in TableChars \cup {dconfig.replacement_char} :
                    result' = Append(result, ch)
             /\ i' = IF data[i + 1] = ESC /\ i + 1 < Len(data) THEN i + 2 ELSE i + 1]_vars
    /\ [](pc \in {"decode_loop", "decoded"} => (i <= Len(data) /\ Len(result) <= i))
    /\ [](DecodeDone /\ dret.ok => (i = Len(data) /\ Len(dret.val) <= Len(data)))
    /\ (pc = "decode_loop") ~> (pc = "decoded")

C14_Witness ==
    /\ DecodeDone
    /\ data = <<ESC, 101, 72>>
    /\ i = 3
    /\ dret = Ok(<<8364, 72>>)

====
